---- MODULE Spec2Model ----
(***************************************************************************)
(* CoinBook (coinbook.py): a ledger of funds and open positions kept in a  *)
(* redis store, valued through the Bittrex ticker.                         *)
(*                                                                         *)
(* Every redis command and every ticker query is one atomic step of the    *)
(* caller that issues it; a method is the sequence of its steps.           *)
(* Numbers are exact rationals <<n, d>>.  The inputs are integers and the  *)
(* rates powers of two, on which Python's float arithmetic is exact too.   *)
(***************************************************************************)
EXTENDS Integers, Sequences, FiniteSets, TLC

\* ------------------------------------------------------------------ bounds
MaxTime == 1
MaxCalls == 3
MaxDrift == 1
MaxCoins == 3

\* ------------------------------------------------------------------ inputs
\* Python's None, where a record or a number is expected.
None == <<>>
AllProcs == {1, 2}
Procs == {1}
Strategies == {<<"a">>}
Currencies == {"ETH", "LTC"}
TradeCurrencies == Currencies \cup {"BTC"}
AmountInputs == {1, 2}
FundsInputs == {0, 5}
Markets == TradeCurrencies

\* ------------------------------------------------------- rational numbers
Abs(n) == IF n < 0 THEN -n ELSE n

RECURSIVE GCD(_, _)
GCD(a, b) == IF b = 0 THEN a ELSE GCD(b, a % b)

Norm(n, d) ==
    LET s == IF d < 0 THEN -1 ELSE 1
        g == GCD(Abs(n), Abs(d))
    IN  <<(s * n) \div g, (s * d) \div g>>

R(n) == <<n, 1>>
RAdd(a, b) == Norm(a[1] * b[2] + b[1] * a[2], a[2] * b[2])
RSub(a, b) == Norm(a[1] * b[2] - b[1] * a[2], a[2] * b[2])
RMul(a, b) == Norm(a[1] * b[1], a[2] * b[2])
RDiv(a, b) == Norm(a[1] * b[2], a[2] * b[1])
RNeg(a) == a[1] < 0

\* What the ticker can answer for a market: no "Last" (exchange_rate is
\* None), or a number.
NoLast == <<"NoLast">>
Rates == {R(2), R(4)}
BadRates == {NoLast, R(0), R(-2)}
Responses == BadRates \cup Rates

\* ------------------------------------------------------------ redis keys
\* A key is the sequence of its "-"-separated parts.
FundsKey(s) == <<"coinbook">> \o s \o <<"funds">>

\* hexdigest()[:20] of sha256(currency + timestamp): one token per
\* (currency, timestamp), distinct for distinct pairs.
PosHash(c, t) == c \o "@" \o ToString(t)

PositionKey(s, c, t) == <<"coinbook">> \o s \o <<"position", PosHash(c, t)>>

IsPrefix(pre, k) == Len(pre) <= Len(k) /\ SubSeq(k, 1, Len(pre)) = pre

\* A pattern that reaches the funds key only.
StrategyKeys_fundsonly(st, s) == {k \in DOMAIN st : k = FundsKey(s)}

\* KEYS 'coinbook-<strategy>-*'
StrategyKeys(st, s) ==
    {k \in DOMAIN st : Len(k) > Len(s) + 1 /\ IsPrefix(<<"coinbook">> \o s, k)}

\* KEYS 'coinbook-<strategy>-position-*'
PositionKeys(st, s) ==
    {k \in DOMAIN st :
        Len(k) > Len(s) + 2 /\ IsPrefix(<<"coinbook">> \o s \o <<"position">>, k)}

\* ------------------------------------------------------------ redis store
\* The store maps the keys it holds to records; GET of another key is None.
RedisGet(st, k) == IF k \in DOMAIN st THEN st[k] ELSE None
RedisSet(st, k, v) == [x \in DOMAIN st \cup {k} |-> IF x = k THEN v ELSE st[x]]
RedisDelete(st, k) == [x \in DOMAIN st \ {k} |-> st[x]]

\* dict.get(field)
Field(rec, f) == IF f \in DOMAIN rec THEN rec[f] ELSE None

FundsRecord(amount) == [amount |-> amount, units |-> "BTC"]
PositionRecord(c, a, t) == [currency |-> c, amount |-> a, open_timestamp |-> t]

\* How a call ends: with a value, or with the exception k.
Ok(v) == [kind |-> "ok", val |-> v]
Err(k) == [kind |-> k, val |-> None]

\* ---------------------------------------------------------- convert_units

\* The market convert_units asks the ticker for.
Ticker(source, target) == IF source = "BTC" THEN target ELSE source

\* not exchange_rate
Falsy(x) == x = NoLast \/ x = R(0)

\* convert_units with the two directions exchanged.
convert_units_swapped(amount, source, target, orc) ==
    IF source # "BTC" /\ target # "BTC"
    THEN [kind |-> "InvalidConversion", val |-> None, asked |-> {}]
    ELSE LET m == Ticker(source, target)
             exchange_rate == orc[m]
         IN  IF Falsy(exchange_rate)
             THEN [kind |-> "InvalidExchangeRate", val |-> None, asked |-> {m}]
             ELSE IF source = "BTC"
             THEN [kind |-> "ok", val |-> RMul(amount, exchange_rate), asked |-> {m}]
             ELSE [kind |-> "ok", val |-> RDiv(amount, exchange_rate), asked |-> {m}]

\* convert_units without the test on the two currencies.
convert_units_unchecked(amount, source, target, orc) ==
    LET m == Ticker(source, target)
        exchange_rate == orc[m]
    IN  IF Falsy(exchange_rate)
        THEN [kind |-> "InvalidExchangeRate", val |-> None, asked |-> {m}]
        ELSE IF source = "BTC"
        THEN [kind |-> "ok", val |-> RDiv(amount, exchange_rate), asked |-> {m}]
        ELSE [kind |-> "ok", val |-> RMul(amount, exchange_rate), asked |-> {m}]

\* convert_units(amount, source, target) against the ticker orc: the value
\* returned or the exception raised, and the markets it asked for.
convert_units(amount, source, target, orc) ==
    IF source # "BTC" /\ target # "BTC"
    THEN [kind |-> "InvalidConversion", val |-> None, asked |-> {}]
    ELSE LET m == Ticker(source, target)
             exchange_rate == orc[m]
         IN  IF Falsy(exchange_rate)
             THEN [kind |-> "InvalidExchangeRate", val |-> None, asked |-> {m}]
             ELSE IF source = "BTC"
             THEN [kind |-> "ok", val |-> RDiv(amount, exchange_rate), asked |-> {m}]
             ELSE [kind |-> "ok", val |-> RMul(amount, exchange_rate), asked |-> {m}]

\* ------------------------------------------------------------------ state
VARIABLES
    store,      \* redis: key -> record
    oracle,     \* the ticker: market BTC-<c> -> its answer
    now,        \* datetime.now()
    ncalls,     \* method calls started
    ndrift,     \* ticker changes so far
    pc,         \* per caller: the step it is at ("idle" between calls)
    op,         \* per caller: the method it runs, or ran last
    self,       \* per caller: strategy_name of the object the method runs on
    inst,       \* per caller: strategy_name of the object it holds, or None
    args,       \* per caller: the arguments of the call
    loc,        \* per caller: the local variables of the method
    res,        \* per caller: how the last call ended (value or exception)
    pre,        \* per caller: the store when the call started
    drift,      \* per caller: the ticker changed since the call started
    asked,      \* per caller: the markets the call has asked the ticker for
    last        \* per caller: the call before this one, and the funds
                \* stored when it started

vars == <<store, oracle, now, ncalls, ndrift, pc, op, self, inst, args, loc,
          res, pre, drift, asked, last>>

env == <<oracle, now, ndrift>>

EmptyStore == [k \in {} |-> None]

NoArgs ==
    [currency |-> "None", amount |-> None, id |-> None, funds |-> None,
     reset |-> FALSE, source |-> "None", target |-> "None", n |-> 0]

NoLoc ==
    [key |-> None, funds |-> None, val |-> None, keys |-> {}, acc |-> R(0),
     cur |-> "None", amt |-> None, i |-> 0, bought |-> {}]

\* get_funds(): json.loads of a missing record raises TypeError.
get_funds(st, s) ==
    IF FundsKey(s) \in DOMAIN st
    THEN Ok(Field(RedisGet(st, FundsKey(s)), "amount"))
    ELSE Err("TypeError")

\* set_funds(amount)
set_funds(st, s, amount) == RedisSet(st, FundsKey(s), FundsRecord(amount))

\* Every caller holds CoinBook(FirstStrategy, initial_funds=FirstFunds),
\* constructed on the empty store.
FirstStrategy == <<"a">>
FirstFunds == CHOOSE f \in FundsInputs : f # 0

NoCall ==
    [op |-> "none", kind |-> "ok", self |-> None, key |-> None,
     args |-> NoArgs, funds |-> None, drift |-> FALSE]

\* The ticker when the first call starts.  ETH trades at a usable rate; LTC
\* has no quote or a negative one; BTC-BTC is no market, or is quoted.
InitOracles ==
    { [m \in Markets |-> IF m = "ETH" THEN R(2) ELSE NoLast],
      [m \in Markets |->
          IF m = "ETH" THEN R(4) ELSE IF m = "LTC" THEN R(-2) ELSE R(2)] }

Init ==
    /\ store = set_funds(EmptyStore, FirstStrategy, R(FirstFunds))
    /\ oracle \in InitOracles
    /\ now = 0
    /\ ncalls = 0
    /\ ndrift = 0
    /\ pc = [p \in AllProcs |-> "idle"]
    /\ op = [p \in AllProcs |-> "none"]
    /\ self = [p \in AllProcs |-> None]
    /\ inst = [p \in AllProcs |-> FirstStrategy]
    /\ args = [p \in AllProcs |-> NoArgs]
    /\ loc = [p \in AllProcs |-> NoLoc]
    /\ res = [p \in AllProcs |-> Ok(None)]
    /\ pre = [p \in AllProcs |-> EmptyStore]
    /\ drift = [p \in AllProcs |-> FALSE]
    /\ asked = [p \in AllProcs |-> {}]
    /\ last = [p \in AllProcs |-> NoCall]

\* ------------------------------------------------------------ environment
\* The clock advances.
Tick ==
    /\ now < MaxTime
    /\ now' = now + 1
    /\ UNCHANGED <<store, oracle, ncalls, ndrift, pc, op, self, inst, args,
                   loc, res, pre, drift, asked, last>>

\* The market moves: the ticker answers differently from now on.
SetRate ==
    /\ ndrift < MaxDrift
    /\ \E m \in Markets, r \in Responses :
        /\ r # oracle[m]
        /\ oracle' = [oracle EXCEPT ![m] = r]
    /\ ndrift' = ndrift + 1
    /\ drift' = [p \in AllProcs |-> TRUE]
    /\ UNCHANGED <<store, now, ncalls, pc, op, self, inst, args, loc, res,
                   pre, asked, last>>

\* -------------------------------------------------------- call and return
\* Caller p starts method o on the object of strategy s.
Call(p, o, s, a, first) ==
    /\ pc[p] = "idle"
    /\ ncalls < MaxCalls
    /\ ncalls' = ncalls + 1
    /\ pc' = [pc EXCEPT ![p] = first]
    /\ op' = [op EXCEPT ![p] = o]
    /\ self' = [self EXCEPT ![p] = s]
    /\ args' = [args EXCEPT ![p] = a]
    /\ loc' = [loc EXCEPT ![p] = NoLoc]
    /\ pre' = [pre EXCEPT ![p] = store]
    /\ drift' = [drift EXCEPT ![p] = FALSE]
    /\ asked' = [asked EXCEPT ![p] = {}]
    /\ last' = [last EXCEPT ![p] =
                    [op |-> op[p], kind |-> res[p].kind, self |-> self[p],
                     key |-> loc[p].key, args |-> args[p],
                     funds |-> get_funds(pre[p], self[p]).val,
                     drift |-> drift[p]]]
    /\ UNCHANGED <<store, oracle, now, ndrift, inst, res>>

\* The method returns r (a value, or the exception that leaves it).
Return(p, r) ==
    /\ pc' = [pc EXCEPT ![p] = "idle"]
    /\ res' = [res EXCEPT ![p] = r]

frame == <<ncalls, op, self, pre, drift, last>>

\* --------------------------------------------------------------- __init__
CallInit(p) ==
    \E s \in Strategies, f \in {None} \cup {R(x) : x \in FundsInputs},
       r \in BOOLEAN :
        Call(p, "init", s, [NoArgs EXCEPT !.funds = f, !.reset = r], "i_get")

\* __init__ seeding the funds again whenever initial_funds is given.
InitGet_reseeding(p) ==
    /\ pc[p] = "i_get"
    /\ LET funds_details == RedisGet(store, FundsKey(self[p]))
           supplied == ~(args[p].funds = None \/ args[p].funds = R(0))
       IN  IF funds_details = None \/ args[p].reset \/ supplied
           THEN IF ~supplied
                THEN /\ Return(p, Err("MissingInitialFunds"))
                     /\ UNCHANGED inst
                ELSE /\ pc' = [pc EXCEPT ![p] = "k_keys"]
                     /\ UNCHANGED <<res, inst>>
           ELSE /\ Return(p, Ok(None))
                /\ inst' = [inst EXCEPT ![p] = self[p]]
    /\ UNCHANGED <<store, env, frame, args, loc, asked>>

\* funds_details = redis.get(...), then the two tests on it.
InitGet(p) ==
    /\ pc[p] = "i_get"
    /\ LET funds_details == RedisGet(store, FundsKey(self[p]))
       IN  IF funds_details = None \/ args[p].reset
           THEN IF args[p].funds = None \/ args[p].funds = R(0)
                THEN /\ Return(p, Err("MissingInitialFunds"))
                     /\ UNCHANGED inst
                ELSE /\ pc' = [pc EXCEPT ![p] = "k_keys"]
                     /\ UNCHANGED <<res, inst>>
           ELSE /\ Return(p, Ok(None))
                /\ inst' = [inst EXCEPT ![p] = self[p]]
    /\ UNCHANGED <<store, env, frame, args, loc, asked>>

InitSetFunds(p) ==
    /\ pc[p] = "i_setf"
    /\ store' = set_funds(store, self[p], args[p].funds)
    /\ Return(p, Ok(None))
    /\ inst' = [inst EXCEPT ![p] = self[p]]
    /\ UNCHANGED <<env, frame, args, loc, asked>>

\* ------------------------------------------------------- clear_redis_keys
CallClear(p) ==
    /\ inst[p] # None
    /\ Call(p, "clear_redis_keys", inst[p], NoArgs, "k_keys")

\* all_keys = redis.keys(pattern)
ClearKeys(p) ==
    /\ pc[p] = "k_keys"
    /\ loc' = [loc EXCEPT ![p].keys = StrategyKeys(store, self[p])]
    /\ pc' = [pc EXCEPT ![p] = "k_del"]
    /\ UNCHANGED <<store, env, frame, args, inst, res, asked>>

\* One round of the loop: redis.delete(redis_key).
ClearDelete(p) ==
    /\ pc[p] = "k_del"
    /\ \E k \in loc[p].keys :
        /\ store' = RedisDelete(store, k)
        /\ loc' = [loc EXCEPT ![p].keys = @ \ {k}]
    /\ UNCHANGED <<pc, env, frame, args, inst, res, asked>>

\* The loop is over: __init__ goes on to set_funds, clear_redis_keys returns.
ClearDone(p) ==
    /\ pc[p] = "k_del"
    /\ loc[p].keys = {}
    /\ IF op[p] = "init"
       THEN pc' = [pc EXCEPT ![p] = "i_setf"] /\ UNCHANGED res
       ELSE Return(p, Ok(None))
    /\ UNCHANGED <<store, env, frame, args, loc, inst, asked>>

\* --------------------------------------------------------------- make_buy
CallBuy(p) ==
    /\ inst[p] # None
    /\ \E c \in TradeCurrencies, a \in AmountInputs :
        Call(p, "make_buy", inst[p],
             [NoArgs EXCEPT !.currency = c, !.amount = R(a)], "b_set")

\* make_buy computing the key but not writing the position.
BuySetPosition_skipped(p) ==
    /\ pc[p] = "b_set"
    /\ loc' = [loc EXCEPT ![p].key =
                   PositionKey(self[p], args[p].currency, now)]
    /\ pc' = [pc EXCEPT ![p] = "b_getf"]
    /\ UNCHANGED <<store, env, frame, args, inst, res, asked>>

\* The key from (currency, now); redis.set(position_key, position_data).
BuySetPosition(p) ==
    /\ pc[p] = "b_set"
    /\ LET position_key == PositionKey(self[p], args[p].currency, now)
       IN  /\ store' = RedisSet(store, position_key,
                   PositionRecord(args[p].currency, args[p].amount, now))
           /\ loc' = [loc EXCEPT ![p].key = position_key]
    /\ pc' = [pc EXCEPT ![p] = "b_getf"]
    /\ UNCHANGED <<env, frame, args, inst, res, asked>>

\* current_funds = self.get_funds()
BuyGetFunds(p) ==
    /\ pc[p] = "b_getf"
    /\ LET g == get_funds(store, self[p])
       IN  IF g.kind = "ok"
           THEN /\ loc' = [loc EXCEPT ![p].funds = g.val]
                /\ pc' = [pc EXCEPT ![p] = "b_conv"]
                /\ UNCHANGED res
           ELSE /\ Return(p, g)
                /\ UNCHANGED loc
    /\ UNCHANGED <<store, env, frame, args, inst, asked>>

\* transaction_value_btc = self.convert_units(amount, currency, 'BTC')
BuyConvert(p) ==
    /\ pc[p] = "b_conv"
    /\ LET c == convert_units(args[p].amount, args[p].currency, "BTC", oracle)
       IN  /\ asked' = [asked EXCEPT ![p] = @ \cup c.asked]
           /\ IF c.kind = "ok"
              THEN /\ loc' = [loc EXCEPT ![p].val = c.val]
                   /\ pc' = [pc EXCEPT ![p] = "b_setf"]
                   /\ UNCHANGED res
              ELSE /\ Return(p, Err(c.kind))
                   /\ UNCHANGED loc
    /\ UNCHANGED <<store, env, frame, args, inst>>

\* make_buy adding the value to the funds instead of taking it off.
BuySetFunds_credited(p) ==
    /\ pc[p] = "b_setf"
    /\ store' = set_funds(store, self[p], RAdd(loc[p].funds, loc[p].val))
    /\ IF op[p] = "crawl"
       THEN /\ pc' = [pc EXCEPT ![p] = "r_eval"]
            /\ loc' = [loc EXCEPT ![p].bought = @ \cup {loc[p].i}]
            /\ UNCHANGED res
       ELSE /\ Return(p, Ok(None))
            /\ UNCHANGED loc
    /\ UNCHANGED <<env, frame, args, inst, asked>>

\* self.set_funds(current_funds - transaction_value_btc); inside crawl the
\* loop goes on with the next coin.
BuySetFunds(p) ==
    /\ pc[p] = "b_setf"
    /\ store' = set_funds(store, self[p], RSub(loc[p].funds, loc[p].val))
    /\ IF op[p] = "crawl"
       THEN /\ pc' = [pc EXCEPT ![p] = "r_eval"]
            /\ loc' = [loc EXCEPT ![p].bought = @ \cup {loc[p].i}]
            /\ UNCHANGED res
       ELSE /\ Return(p, Ok(None))
            /\ UNCHANGED loc
    /\ UNCHANGED <<env, frame, args, inst, asked>>

\* -------------------------------------------------------------- make_sell
\* The ids a caller may pass: the key of any position that was or could be
\* opened, stored or not.
SellIds ==
    {PositionKey(s, c, t) : s \in Strategies, c \in TradeCurrencies,
                            t \in 0..MaxTime}

CallSell(p) ==
    /\ inst[p] # None
    /\ \E id \in SellIds :
        Call(p, "make_sell", inst[p], [NoArgs EXCEPT !.id = id], "s_get")

\* make_sell's read taking a missing record for nothing to do.
SellGet_lenient(p) ==
    /\ pc[p] = "s_get"
    /\ LET pos_data == RedisGet(store, args[p].id)
       IN  IF pos_data = None
           THEN /\ Return(p, Ok(None))
                /\ UNCHANGED loc
           ELSE /\ loc' = [loc EXCEPT ![p].cur = Field(pos_data, "currency"),
                                      ![p].amt = Field(pos_data, "amount")]
                /\ pc' = [pc EXCEPT ![p] = "s_del"]
                /\ UNCHANGED res
    /\ UNCHANGED <<store, env, frame, args, inst, asked>>

\* pos_data = json.loads(self.redis.get(position_id)): TypeError on None.
SellGet(p) ==
    /\ pc[p] = "s_get"
    /\ LET pos_data == RedisGet(store, args[p].id)
       IN  IF pos_data = None
           THEN /\ Return(p, Err("TypeError"))
                /\ UNCHANGED loc
           ELSE /\ loc' = [loc EXCEPT ![p].cur = Field(pos_data, "currency"),
                                      ![p].amt = Field(pos_data, "amount")]
                /\ pc' = [pc EXCEPT ![p] = "s_del"]
                /\ UNCHANGED res
    /\ UNCHANGED <<store, env, frame, args, inst, asked>>

\* make_sell without the delete.
SellDelete_kept(p) ==
    /\ pc[p] = "s_del"
    /\ pc' = [pc EXCEPT ![p] = "s_conv"]
    /\ UNCHANGED <<store, env, frame, args, loc, inst, res, asked>>

\* self.redis.delete(position_id)
SellDelete(p) ==
    /\ pc[p] = "s_del"
    /\ store' = RedisDelete(store, args[p].id)
    /\ pc' = [pc EXCEPT ![p] = "s_conv"]
    /\ UNCHANGED <<env, frame, args, loc, inst, res, asked>>

\* pos_value_btc = self.convert_units(pos_amount, pos_currency, 'BTC')
SellConvert(p) ==
    /\ pc[p] = "s_conv"
    /\ LET c == convert_units(loc[p].amt, loc[p].cur, "BTC", oracle)
       IN  /\ asked' = [asked EXCEPT ![p] = @ \cup c.asked]
           /\ IF c.kind = "ok"
              THEN /\ loc' = [loc EXCEPT ![p].val = c.val]
                   /\ pc' = [pc EXCEPT ![p] = "s_getf"]
                   /\ UNCHANGED res
              ELSE /\ Return(p, Err(c.kind))
                   /\ UNCHANGED loc
    /\ UNCHANGED <<store, env, frame, args, inst>>

\* current_funds = self.get_funds()
SellGetFunds(p) ==
    /\ pc[p] = "s_getf"
    /\ LET g == get_funds(store, self[p])
       IN  IF g.kind = "ok"
           THEN /\ loc' = [loc EXCEPT ![p].funds = g.val]
                /\ pc' = [pc EXCEPT ![p] = "s_setf"]
                /\ UNCHANGED res
           ELSE /\ Return(p, g)
                /\ UNCHANGED loc
    /\ UNCHANGED <<store, env, frame, args, inst, asked>>

\* self.set_funds(current_funds + pos_value_btc)
SellSetFunds(p) ==
    /\ pc[p] = "s_setf"
    /\ store' = set_funds(store, self[p], RAdd(loc[p].funds, loc[p].val))
    /\ Return(p, Ok(None))
    /\ UNCHANGED <<env, frame, args, loc, inst, asked>>

\* ------------------------------------------------------ get_total_balance
CallTotal(p) ==
    /\ inst[p] # None
    /\ Call(p, "get_total_balance", inst[p], NoArgs, "t_getf")

\* funds_balance = self.get_funds()
TotalGetFunds(p) ==
    /\ pc[p] = "t_getf"
    /\ LET g == get_funds(store, self[p])
       IN  IF g.kind = "ok"
           THEN /\ loc' = [loc EXCEPT ![p].funds = g.val]
                /\ pc' = [pc EXCEPT ![p] = "t_keys"]
                /\ UNCHANGED res
           ELSE /\ Return(p, g)
                /\ UNCHANGED loc
    /\ UNCHANGED <<store, env, frame, args, inst, asked>>

\* all_positions = self.get_positions()
TotalKeys(p) ==
    /\ pc[p] = "t_keys"
    /\ loc' = [loc EXCEPT ![p].keys = PositionKeys(store, self[p])]
    /\ pc' = [pc EXCEPT ![p] = "t_get"]
    /\ UNCHANGED <<store, env, frame, args, inst, res, asked>>

\* One round of the loop, first half: pos_data = json.loads(redis.get(position)).
TotalGet(p) ==
    /\ pc[p] = "t_get"
    /\ \E k \in loc[p].keys :
        LET pos_data == RedisGet(store, k)
        IN  IF pos_data = None
            THEN /\ Return(p, Err("TypeError"))
                 /\ UNCHANGED loc
            ELSE /\ loc' = [loc EXCEPT ![p].keys = @ \ {k},
                                       ![p].key = k,
                                       ![p].cur = Field(pos_data, "currency"),
                                       ![p].amt = Field(pos_data, "amount")]
                 /\ pc' = [pc EXCEPT ![p] = "t_conv"]
                 /\ UNCHANGED res
    /\ UNCHANGED <<store, env, frame, args, inst, asked>>

\* The loop skipping a position it cannot convert.
TotalConvert_skipping(p) ==
    /\ pc[p] = "t_conv"
    /\ LET c == convert_units(loc[p].amt, loc[p].cur, "BTC", oracle)
       IN  /\ asked' = [asked EXCEPT ![p] = @ \cup c.asked]
           /\ IF c.kind = "ok"
              THEN loc' = [loc EXCEPT ![p].acc = RAdd(@, c.val)]
              ELSE UNCHANGED loc
           /\ pc' = [pc EXCEPT ![p] = "t_get"]
           /\ UNCHANGED res
    /\ UNCHANGED <<store, env, frame, args, inst>>

\* Second half: convert_units and position_balances.append.
TotalConvert(p) ==
    /\ pc[p] = "t_conv"
    /\ LET c == convert_units(loc[p].amt, loc[p].cur, "BTC", oracle)
       IN  /\ asked' = [asked EXCEPT ![p] = @ \cup c.asked]
           /\ IF c.kind = "ok"
              THEN /\ loc' = [loc EXCEPT ![p].acc = RAdd(@, c.val)]
                   /\ pc' = [pc EXCEPT ![p] = "t_get"]
                   /\ UNCHANGED res
              ELSE /\ Return(p, Err(c.kind))
                   /\ UNCHANGED loc
    /\ UNCHANGED <<store, env, frame, args, inst>>

\* The loop is over: return funds_balance + sum(position_balances).
TotalReturn(p) ==
    /\ pc[p] = "t_get"
    /\ loc[p].keys = {}
    /\ Return(p, Ok(RAdd(loc[p].funds, loc[p].acc)))
    /\ UNCHANGED <<store, env, frame, args, loc, inst, asked>>

\* ---------------------------------------------------------- convert_units
CallConvert(p) ==
    /\ inst[p] # None
    /\ \E a \in AmountInputs, src \in TradeCurrencies, tgt \in TradeCurrencies :
        Call(p, "convert_units", inst[p],
             [NoArgs EXCEPT !.amount = R(a), !.source = src, !.target = tgt],
             "c_conv")

Convert(p) ==
    /\ pc[p] = "c_conv"
    /\ LET c == convert_units(args[p].amount, args[p].source, args[p].target,
                              oracle)
       IN  /\ asked' = [asked EXCEPT ![p] = @ \cup c.asked]
           /\ Return(p, [kind |-> c.kind, val |-> c.val])
    /\ UNCHANGED <<store, env, frame, args, loc, inst>>

\* ------------------------------------------------------------------ crawl
\* all_coins = summaries.get('result'): n coins.
CallCrawl(p) ==
    /\ inst[p] # None
    /\ \E n \in 0..MaxCoins :
        Call(p, "crawl", inst[p], [NoArgs EXCEPT !.n = n], "r_eval")

\* evaluate_coin(coin) raises: the exception leaves crawl.
CrawlEvaluateRaises(p) ==
    /\ pc[p] = "r_eval"
    /\ loc[p].i < args[p].n
    /\ loc' = [loc EXCEPT ![p].i = @ + 1]
    /\ Return(p, Err("EvaluateError"))
    /\ UNCHANGED <<store, env, frame, args, inst, asked>>

\* evaluate_coin(coin) returns None: on to the next coin.
CrawlEvaluateNone(p) ==
    /\ pc[p] = "r_eval"
    /\ loc[p].i < args[p].n
    /\ loc' = [loc EXCEPT ![p].i = @ + 1]
    /\ UNCHANGED <<store, env, frame, pc, args, inst, res, asked>>

\* evaluate_coin(coin) returns a trade: self.make_buy(trade=trade).
CrawlEvaluateTrade(p) ==
    /\ pc[p] = "r_eval"
    /\ loc[p].i < args[p].n
    /\ loc' = [loc EXCEPT ![p].i = @ + 1]
    /\ \E c \in TradeCurrencies :
        args' = [args EXCEPT ![p].currency = c, ![p].amount = R(1)]
    /\ pc' = [pc EXCEPT ![p] = "b_set"]
    /\ UNCHANGED <<store, env, frame, inst, res, asked>>

\* No coin is left.
CrawlReturn(p) ==
    /\ pc[p] = "r_eval"
    /\ loc[p].i = args[p].n
    /\ Return(p, Ok(None))
    /\ UNCHANGED <<store, env, frame, args, loc, inst, asked>>

\* ---------------------------------------------------------- specification
Step(p) ==
    \/ CallInit(p) \/ InitGet(p) \/ InitSetFunds(p)
    \/ CallClear(p) \/ ClearKeys(p) \/ ClearDelete(p) \/ ClearDone(p)
    \/ CallBuy(p) \/ BuySetPosition(p) \/ BuyGetFunds(p) \/ BuyConvert(p)
    \/ BuySetFunds(p)
    \/ CallSell(p) \/ SellGet(p) \/ SellDelete(p) \/ SellConvert(p)
    \/ SellGetFunds(p) \/ SellSetFunds(p)
    \/ CallTotal(p) \/ TotalGetFunds(p) \/ TotalKeys(p) \/ TotalGet(p)
    \/ TotalConvert(p) \/ TotalReturn(p)

CrawlStep(p) ==
    \/ CallCrawl(p) \/ CrawlEvaluateRaises(p) \/ CrawlEvaluateNone(p)
    \/ CrawlEvaluateTrade(p) \/ CrawlReturn(p)
    \/ BuySetPosition(p) \/ BuyGetFunds(p) \/ BuyConvert(p) \/ BuySetFunds(p)

\* One caller uses the ledger; the ticker's answers stay as they are.
Next == Tick \/ \E p \in Procs : Step(p)

Spec == Init /\ [][Next]_vars

\* Two callers of one strategy, each making one call, a buy or a sell; every
\* redis command and ticker query of one caller may fall between two of the
\* other's. ETH and LTC both trade at the lower rate.
ConcOracle ==
    LET r == CHOOSE x \in Rates : \A y \in Rates : x[1] <= y[1]
    IN  [m \in Markets |-> IF m \in Currencies THEN r ELSE NoLast]

\* The store after CoinBook('a', initial_funds=FirstFunds) and one completed
\* make_buy of one coin of every currency at time 0.
RECURSIVE BoughtOne(_, _)
BoughtOne(st, cs) ==
    IF cs = {} THEN st
    ELSE LET c == CHOOSE x \in cs : TRUE
             v == convert_units(R(1), c, "BTC", ConcOracle).val
             bought == RedisSet(st, PositionKey(FirstStrategy, c, 0),
                                PositionRecord(c, R(1), 0))
         IN  BoughtOne(set_funds(bought, FirstStrategy,
                                 RSub(get_funds(st, FirstStrategy).val, v)),
                       cs \ {c})

ConcStore ==
    BoughtOne(set_funds(EmptyStore, FirstStrategy, R(FirstFunds)), Currencies)

InitConc ==
    /\ store = ConcStore
    /\ oracle = ConcOracle
    /\ now = 0
    /\ ncalls = 0
    /\ ndrift = 0
    /\ pc = [p \in AllProcs |-> "idle"]
    /\ op = [p \in AllProcs |-> "none"]
    /\ self = [p \in AllProcs |-> None]
    /\ inst = [p \in AllProcs |-> FirstStrategy]
    /\ args = [p \in AllProcs |-> NoArgs]
    /\ loc = [p \in AllProcs |-> NoLoc]
    /\ res = [p \in AllProcs |-> Ok(None)]
    /\ pre = [p \in AllProcs |-> EmptyStore]
    /\ drift = [p \in AllProcs |-> FALSE]
    /\ asked = [p \in AllProcs |-> {}]
    /\ last = [p \in AllProcs |-> NoCall]

OnceBuy(p) == op[p] = "none" /\ CallBuy(p)

OnceSell(p) == op[p] = "none" /\ CallSell(p)

TradeStep(p) ==
    \/ OnceBuy(p) \/ BuySetPosition(p) \/ BuyGetFunds(p) \/ BuyConvert(p)
    \/ BuySetFunds(p)
    \/ OnceSell(p) \/ SellGet(p) \/ SellDelete(p) \/ SellConvert(p)
    \/ SellGetFunds(p) \/ SellSetFunds(p)

NextConc == Tick \/ \E p \in AllProcs : TradeStep(p)

SpecConc == InitConc /\ [][NextConc]_vars

\* Two strategies share the store, the name of one a prefix of the other's
\* ('a' and 'a-b'); caller 1 holds the first, caller 2 the second, and one
\* call runs at a time.
PrefixedStrategy == FirstStrategy \o <<"b">>

NsStrategy(p) == IF p = 1 THEN FirstStrategy ELSE PrefixedStrategy

InitNs ==
    /\ store = set_funds(set_funds(EmptyStore, FirstStrategy, R(FirstFunds)),
                         PrefixedStrategy, R(FirstFunds))
    /\ oracle \in InitOracles
    /\ now = 0
    /\ ncalls = 0
    /\ ndrift = 0
    /\ pc = [p \in AllProcs |-> "idle"]
    /\ op = [p \in AllProcs |-> "none"]
    /\ self = [p \in AllProcs |-> NsStrategy(p)]
    /\ inst = [p \in AllProcs |-> NsStrategy(p)]
    /\ args = [p \in AllProcs |-> NoArgs]
    /\ loc = [p \in AllProcs |-> NoLoc]
    /\ res = [p \in AllProcs |-> Ok(None)]
    /\ pre = [p \in AllProcs |-> EmptyStore]
    /\ drift = [p \in AllProcs |-> FALSE]
    /\ asked = [p \in AllProcs |-> {}]
    /\ last = [p \in AllProcs |-> NoCall]

\* A call starts when no other call is running.
Alone(p) == \A q \in AllProcs \ {p} : pc[q] = "idle"

NsClear(p) == Alone(p) /\ CallClear(p)

NsBuy(p) == Alone(p) /\ CallBuy(p)

NsSell(p) == Alone(p) /\ CallSell(p)

NsTotal(p) == Alone(p) /\ CallTotal(p)

NsStep(p) ==
    \/ NsClear(p) \/ ClearKeys(p) \/ ClearDelete(p) \/ ClearDone(p)
    \/ NsBuy(p) \/ BuySetPosition(p) \/ BuyGetFunds(p) \/ BuyConvert(p)
    \/ BuySetFunds(p)
    \/ NsSell(p) \/ SellGet(p) \/ SellDelete(p) \/ SellConvert(p)
    \/ SellGetFunds(p) \/ SellSetFunds(p)
    \/ NsTotal(p) \/ TotalGetFunds(p) \/ TotalKeys(p) \/ TotalGet(p)
    \/ TotalConvert(p) \/ TotalReturn(p)

NextNs == \E p \in AllProcs : NsStep(p)

SpecNs == InitNs /\ [][NextNs]_vars

\* The caller only converts, while the market moves.
NextConvert == SetRate \/ \E p \in Procs : CallConvert(p) \/ Convert(p)

SpecConvert == Init /\ [][NextConvert]_vars

\* The caller only crawls; ETH trades at 2, LTC and BTC-BTC are not quoted.
InitCrawl ==
    /\ Init
    /\ oracle = [m \in Markets |-> IF m = "ETH" THEN R(2) ELSE NoLast]

NextCrawl == Tick \/ \E p \in Procs : CrawlStep(p)

SpecCrawl == InitCrawl /\ [][NextCrawl]_vars

\* ================================================================= claims
\* Caller p is back from method o.
Done(p, o) == pc[p] = "idle" /\ op[p] = o

\* Caller p is back from method o, which raised nothing.
Succeeded(p, o) == Done(p, o) /\ res[p].kind = "ok"

\* The stored funds amount of strategy s.
Funds(st, s) == get_funds(st, s).val

\* The value of the positions ks of store st at the rates orc, or the
\* exception of a conversion that fails.
RECURSIVE SumPositions(_, _, _)
SumPositions(ks, st, orc) ==
    IF ks = {} THEN Ok(R(0))
    ELSE LET bad == {k \in ks :
                        convert_units(st[k].amount, st[k].currency, "BTC",
                                      orc).kind # "ok"}
         IN  IF bad # {}
             THEN LET k == CHOOSE k \in bad : TRUE
                  IN  Err(convert_units(st[k].amount, st[k].currency, "BTC",
                                        orc).kind)
             ELSE LET k == CHOOSE k \in ks : TRUE
                      rest == SumPositions(ks \ {k}, st, orc)
                  IN  Ok(RAdd(convert_units(st[k].amount, st[k].currency,
                                            "BTC", orc).val, rest.val))

\* What get_total_balance returns on store st at the rates orc.
TotalBalance(st, s, orc) ==
    IF get_funds(st, s).kind # "ok" THEN get_funds(st, s)
    ELSE LET sum == SumPositions(PositionKeys(st, s), st, orc)
         IN  IF sum.kind # "ok" THEN sum
             ELSE Ok(RAdd(Funds(st, s), sum.val))

\* ---------------------------------------------------------------------- C1
\* C1 as stated: after a successful make_buy of {currency: X, amount: A} at
\* the rate R of BTC-X, exactly one new position record (X, A) exists and the
\* stored funds are F - A/R, F the funds before the buy.
C1_BuyDebitsQuotient ==
    \A p \in Procs :
        Succeeded(p, "make_buy") /\ ~drift[p] =>
            LET X == args[p].currency
                A == args[p].amount
                new == PositionKeys(store, self[p]) \ PositionKeys(pre[p], self[p])
            IN  /\ Cardinality(new) = 1
                /\ \A k \in new : store[k].currency = X /\ store[k].amount = A
                /\ Funds(store, self[p])
                     = RSub(Funds(pre[p], self[p]), RDiv(A, oracle[X]))

\* C1 amended: after a successful make_buy of {currency: X, amount: A} at the
\* rate R of BTC-X, the key computed for the buy holds a record (X, A), the
\* position keys are those from before plus that key, no other position is
\* changed, and the stored funds are F - A*R for X other than BTC (F - A/R
\* for X = BTC, which convert_units takes as the source side of BTC-BTC).
C1_BuyDebitsProduct ==
    \A p \in Procs :
        Succeeded(p, "make_buy") /\ ~drift[p] =>
            LET X == args[p].currency
                A == args[p].amount
                k == loc[p].key
                before == PositionKeys(pre[p], self[p])
            IN  /\ k \in DOMAIN store
                /\ store[k].currency = X /\ store[k].amount = A
                /\ PositionKeys(store, self[p]) = before \cup {k}
                /\ \A j \in before \ {k} : store[j] = pre[p][j]
                /\ Funds(store, self[p])
                     = RSub(Funds(pre[p], self[p]),
                            IF X = "BTC" THEN RDiv(A, oracle[X])
                                         ELSE RMul(A, oracle[X]))

\* A buy of ETH has opened a new position and debited the funds.
C1_Witness ==
    \E p \in Procs :
        /\ Succeeded(p, "make_buy")
        /\ args[p].currency = "ETH"
        /\ loc[p].key \notin DOMAIN pre[p]
        /\ Funds(store, self[p]) # Funds(pre[p], self[p])

\* ---------------------------------------------------------------------- C2
\* C2: at fixed rates, a make_sell of the position the make_buy just before
\* it opened brings the stored funds back to their amount from before the
\* buy and removes the position's key; a make_sell of an id that the call
\* just before it sold raises the missing-record error.
C2_SellUndoesBuy ==
    \A p \in Procs :
        /\ ( /\ Succeeded(p, "make_sell")
             /\ last[p].op = "make_buy" /\ last[p].kind = "ok"
             /\ args[p].id = last[p].key
             /\ ~drift[p] /\ ~last[p].drift )
           => /\ Funds(store, self[p]) = last[p].funds
              /\ args[p].id \notin DOMAIN store
        /\ ( /\ Done(p, "make_sell")
             /\ last[p].op = "make_sell" /\ last[p].kind = "ok"
             /\ args[p].id = last[p].args.id )
           => res[p].kind = "TypeError"

\* A sell has closed the position of the buy before it.
C2_Witness ==
    \E p \in Procs :
        /\ Succeeded(p, "make_sell")
        /\ last[p].op = "make_buy" /\ last[p].kind = "ok"
        /\ args[p].id = last[p].key
        /\ last[p].funds # None
        /\ last[p].args.currency = "ETH"

\* ---------------------------------------------------------------------- C3
\* C3: at fixed rates, get_total_balance has the same value after a
\* successful make_buy or make_sell as before it.
C3_TotalBalanceKept ==
    \A p \in Procs :
        (Succeeded(p, "make_buy") \/ Succeeded(p, "make_sell")) /\ ~drift[p]
            => TotalBalance(store, self[p], oracle)
                 = TotalBalance(pre[p], self[p], oracle)

\* ---------------------------------------------------------------------- C4
\* C4: make_sell of an id that has no record raises the missing-record error
\* and leaves every key of the store as it was.
C4_SellOfMissingId ==
    \A p \in Procs :
        Done(p, "make_sell") /\ args[p].id \notin DOMAIN pre[p]
            => res[p].kind = "TypeError" /\ store = pre[p]

\* Such a sell has returned while the strategy holds positions.
C4_Witness ==
    \E p \in Procs :
        /\ Done(p, "make_sell")
        /\ args[p].id \notin DOMAIN pre[p]
        /\ PositionKeys(store, self[p]) # {}

\* ---------------------------------------------------------------------- C5
\* C5: a construction with reset_funds and initial funds V that succeeds
\* leaves, under the strategy's prefix, the funds record with amount V and
\* no other key; done again right after, it leaves the store as it found it.
C5_ResetIdempotent ==
    \A p \in Procs :
        Succeeded(p, "init") /\ args[p].reset =>
            /\ StrategyKeys(store, self[p]) = {FundsKey(self[p])}
            /\ store[FundsKey(self[p])] = FundsRecord(args[p].funds)
            /\ PositionKeys(store, self[p]) = {}
            /\ ( /\ last[p].op = "init" /\ last[p].kind = "ok"
                 /\ last[p].args.reset
                 /\ last[p].self = self[p]
                 /\ last[p].args.funds = args[p].funds )
               => store = pre[p]

\* A reset has followed a reset.
C5_Witness ==
    \E p \in Procs :
        /\ Succeeded(p, "init") /\ args[p].reset
        /\ last[p].op = "init" /\ last[p].kind = "ok" /\ last[p].args.reset
        /\ last[p].args.funds = args[p].funds

\* ---------------------------------------------------------------------- C6
\* C6: convert_units with neither currency BTC raises the invalid-conversion
\* error and asks the ticker for no market, whatever the amount and the
\* ticker's answers.
C6_NeitherBaseRejected ==
    \A p \in Procs :
        /\ Done(p, "convert_units")
        /\ args[p].source # "BTC" /\ args[p].target # "BTC"
        => /\ res[p] = Err("InvalidConversion")
           /\ asked[p] = {}

\* Such a conversion has been refused.
C6_Witness ==
    \E p \in Procs :
        /\ Done(p, "convert_units")
        /\ args[p].source = "ETH" /\ args[p].target = "LTC"
        /\ oracle["ETH"] \in Rates

\* ---------------------------------------------------------------------- C7
\* C7: convert_units from BTC to BTC is rejected, as a call with neither
\* currency BTC is: it raises and returns no value.
C7_BaseToBaseRejected ==
    \A p \in Procs :
        /\ Done(p, "convert_units")
        /\ args[p].source = "BTC" /\ args[p].target = "BTC"
        => res[p].kind # "ok"

\* ---------------------------------------------------------------------- C8
\* C8: when the ticker's answer for the market has no rate, or a zero or a
\* negative one, convert_units raises the invalid-exchange-rate error and
\* returns no value, in either direction.
C8_BadRateRaises ==
    \A p \in Procs :
        /\ Done(p, "convert_units")
        /\ ~drift[p]
        /\ (args[p].source = "BTC") # (args[p].target = "BTC")
        /\ oracle[Ticker(args[p].source, args[p].target)] \in BadRates
        => res[p] = Err("InvalidExchangeRate")

\* ---------------------------------------------------------------------- C9
\* The positions of strategy s that convert_units cannot value.
Unconvertible(st, s, orc) ==
    {k \in PositionKeys(st, s) :
        convert_units(st[k].amount, st[k].currency, "BTC", orc).kind # "ok"}

\* C9: get_total_balance leaves the store as it was; if the conversion of any
\* one position fails it returns no value but raises (the exchange-rate
\* error, when the funds record could be read); if none fails it returns the
\* funds plus the value of every position.
C9_TotalAllOrNothing ==
    \A p \in Procs :
        Done(p, "get_total_balance") /\ ~drift[p] =>
            /\ store = pre[p]
            /\ Unconvertible(pre[p], self[p], oracle) # {}
                => /\ res[p].kind # "ok" /\ res[p].val = None
                   /\ FundsKey(self[p]) \in DOMAIN pre[p]
                        => res[p].kind = "InvalidExchangeRate"
            /\ res[p].kind = "ok"
                => /\ Unconvertible(pre[p], self[p], oracle) = {}
                   /\ res[p] = TotalBalance(pre[p], self[p], oracle)

\* The aggregation has failed over two positions, one of which converts.
C9_Witness ==
    \E p \in Procs :
        /\ Done(p, "get_total_balance")
        /\ res[p].kind = "InvalidExchangeRate"
        /\ Unconvertible(pre[p], self[p], oracle) # {}
        /\ Unconvertible(pre[p], self[p], oracle) # PositionKeys(pre[p], self[p])

\* --------------------------------------------------------------------- C10
\* C10: a crawl over n coins evaluates every one of them, whether or not an
\* evaluate_coin or a make_buy on the way raised.
C10_CrawlIsolatesFailures ==
    \A p \in Procs : Done(p, "crawl") => loc[p].i = args[p].n

\* --------------------------------------------------------------------- C11
\* C11: a make_buy whose position key is already stored does not overwrite
\* it: the buy fails with the position-id-collision error and the stored
\* record is left as it was.
C11_NoOverwrite ==
    \A p \in Procs :
        Done(p, "make_buy") /\ loc[p].key \in DOMAIN pre[p]
            => /\ res[p].kind = "PositionIdCollision"
               /\ store[loc[p].key] = pre[p][loc[p].key]

\* --------------------------------------------------------------------- C13
\* C13: a construction without reset_funds fails with the
\* missing-initial-funds error exactly when the strategy has no funds record
\* and initial_funds is None (0 counts as supplied); a failed construction
\* leaves the store as it was.
C13_FailsIffNothingSupplied ==
    \A p \in Procs :
        Done(p, "init") /\ ~args[p].reset =>
            /\ res[p].kind = "MissingInitialFunds"
                 <=> ( /\ FundsKey(self[p]) \notin DOMAIN pre[p]
                       /\ args[p].funds = None )
            /\ res[p].kind # "ok" => store = pre[p]

\* --------------------------------------------------------------------- C14
\* C14: in every state of a make_buy, between its steps and after it, funds
\* that differ from those stored when the buy started imply that the buy's
\* position record is stored.
C14_PositionBeforeDebit ==
    \A p \in Procs :
        op[p] = "make_buy" /\ Funds(store, self[p]) # Funds(pre[p], self[p])
            => /\ loc[p].key \in DOMAIN store
               /\ store[loc[p].key].currency = args[p].currency
               /\ store[loc[p].key].amount = args[p].amount

\* A buy has debited the funds.
C14_Witness ==
    \E p \in Procs :
        /\ Succeeded(p, "make_buy")
        /\ Funds(store, self[p]) # Funds(pre[p], self[p])
        /\ loc[p].key \in DOMAIN store

\* --------------------------------------------------------------------- C15
\* C15: a make_buy that fails after writing its position leaves the
\* position stored and the funds as they were, and the error is the
\* partial-buy-failure error carrying the position id.
C15_PartialBuyFailure ==
    \A p \in Procs :
        Done(p, "make_buy") /\ res[p].kind # "ok" /\ loc[p].key # None
            => /\ loc[p].key \in DOMAIN store
               /\ get_funds(store, self[p]) = get_funds(pre[p], self[p])
               /\ res[p].kind = "PartialBuyFailure"
               /\ res[p].val = loc[p].key

\* --------------------------------------------------------------------- C16
\* C16: a make_sell whose conversion fails after the position was removed
\* leaves the position removed and the funds as they were, and the error is
\* the partial-sell-failure error carrying the position's currency and
\* amount.
C16_PartialSellFailure ==
    \A p \in Procs :
        /\ Done(p, "make_sell") /\ res[p].kind # "ok"
        /\ args[p].id \in DOMAIN pre[p]
        /\ FundsKey(self[p]) \in DOMAIN store
        => /\ args[p].id \notin DOMAIN store
           /\ get_funds(store, self[p]) = get_funds(pre[p], self[p])
           /\ res[p].kind = "PartialSellFailure"
           /\ res[p].val = [currency |-> pre[p][args[p].id].currency,
                            amount |-> pre[p][args[p].id].amount]

\* --------------------------------------------------------------------- C18
\* C18: after every completed make_buy or make_sell the stored funds amount
\* is greater than or equal to zero.
C18_FundsNeverNegative ==
    \A p \in Procs :
        /\ Done(p, "make_buy") \/ Done(p, "make_sell")
        /\ FundsKey(self[p]) \in DOMAIN store
        => ~RNeg(Funds(store, self[p]))

\* --------------------------------------------------------------------- C20
\* C20: a construction without reset_funds for a strategy that has a funds
\* record returns normally and leaves the whole store as it was, whether or
\* not initial_funds is given.
C20_ExistingFundsKept ==
    \A p \in Procs :
        /\ Done(p, "init") /\ ~args[p].reset
        /\ FundsKey(self[p]) \in DOMAIN pre[p]
        => /\ res[p].kind = "ok"
           /\ store = pre[p]

\* A construction with an initial_funds other than the stored amount has
\* returned on a store that holds a position.
C20_Witness ==
    \E p \in Procs :
        /\ Done(p, "init") /\ ~args[p].reset
        /\ FundsKey(self[p]) \in DOMAIN pre[p]
        /\ args[p].funds \notin {None, R(0), Funds(pre[p], self[p])}
        /\ PositionKeys(pre[p], self[p]) # {}
        /\ res[p].kind = "ok"

\* --------------------------------------------------------------------- C12
\* C12: when each of two callers has made one call, a make_sell of the same
\* stored position, the two sells have not both succeeded: at most one got
\* the record, the other failed with the position-not-found error, and the
\* funds were credited at most once.
C12_SoldOnce ==
    \A p, q \in AllProcs :
        /\ p # q
        /\ last[p].op = "none" /\ last[q].op = "none"
        /\ Done(p, "make_sell") /\ Done(q, "make_sell")
        /\ args[p].id = args[q].id /\ args[p].id \in DOMAIN ConcStore
        => /\ ~(res[p].kind = "ok" /\ res[q].kind = "ok")
           /\ res[p].kind = "ok" \/ res[q].kind = "ok"
           /\ Funds(store, self[p]) =
                 RAdd(Funds(ConcStore, self[p]),
                      IF res[p].kind = "ok" THEN loc[p].val ELSE loc[q].val)

\* --------------------------------------------------------------------- C17
\* C17: when each of two callers has made one call and both calls are
\* successful buys with different position keys, both positions are stored
\* and the funds are the starting funds less both values or less only one of
\* them; when both calls are successful sells of different positions, both
\* positions are removed and the funds are the starting funds plus both
\* values or plus only one of them.
C17_LostUpdateBounds ==
    \A p, q \in AllProcs :
        LET F == Funds(ConcStore, self[p])
            first == p # q /\ last[p].op = "none" /\ last[q].op = "none"
        IN  /\ /\ first
               /\ Succeeded(p, "make_buy") /\ Succeeded(q, "make_buy")
               /\ loc[p].key # loc[q].key
               => /\ {loc[p].key, loc[q].key} \subseteq DOMAIN store
                  /\ store[loc[p].key].amount = args[p].amount
                  /\ store[loc[q].key].amount = args[q].amount
                  /\ Funds(store, self[p]) \in
                        { RSub(RSub(F, loc[p].val), loc[q].val),
                          RSub(F, loc[p].val), RSub(F, loc[q].val) }
            /\ /\ first
               /\ Succeeded(p, "make_sell") /\ Succeeded(q, "make_sell")
               /\ args[p].id # args[q].id
               => /\ {args[p].id, args[q].id} \cap DOMAIN store = {}
                  /\ Funds(store, self[p]) \in
                        { RAdd(RAdd(F, loc[p].val), loc[q].val),
                          RAdd(F, loc[p].val), RAdd(F, loc[q].val) }

\* Two concurrent buys have succeeded and stored their positions, and the
\* funds carry only one of the two debits.
C17_Witness ==
    \E p, q \in AllProcs :
        /\ p # q /\ last[p].op = "none" /\ last[q].op = "none"
        /\ Succeeded(p, "make_buy") /\ Succeeded(q, "make_buy")
        /\ loc[p].key # loc[q].key
        /\ {loc[p].key, loc[q].key} \subseteq DOMAIN store
        /\ loc[q].val # R(0)
        /\ Funds(store, self[p]) = RSub(Funds(ConcStore, self[p]), loc[p].val)

\* --------------------------------------------------------------------- C19
\* The funds key and the position keys of strategy s.
OwnKey(s, k) ==
    \/ k = FundsKey(s)
    \/ /\ Len(k) = Len(s) + 3
       /\ IsPrefix(<<"coinbook">> \o s \o <<"position">>, k)

\* C19: while a call of one strategy runs, every funds and position key of
\* the other strategy is stored exactly as it was when the call started, and
\* the call has read no position of the other strategy as its own; a
\* make_sell given a position key of the other strategy has failed with the
\* position-not-found error.
C19_NamespacesApart ==
    \A p \in AllProcs :
        \A s \in {FirstStrategy, PrefixedStrategy} \ {self[p]} :
            /\ pc[p] # "idle" =>
                 /\ \A k \in DOMAIN pre[p] \cup DOMAIN store :
                        OwnKey(s, k) => /\ k \in DOMAIN pre[p] \cap DOMAIN store
                                        /\ store[k] = pre[p][k]
                 /\ \A k \in loc[p].keys : ~OwnKey(s, k)
            /\ Done(p, "make_sell") /\ OwnKey(s, args[p].id)
                 => res[p].kind = "TypeError"

====
